---- MODULE Spec2Model ----
(***************************************************************************)
(* Model of src/main.py: a FastAPI service that keeps one SQLite table     *)
(* ("flights", shared in-memory connection db_conn) and mirrors it to a    *)
(* JSON file after every mutation.                                         *)
(*                                                                         *)
(* A column value is modelled as an option: NULL is the empty tuple, a     *)
(* present value v is the 1-tuple <<v>> (text columns hold strings, integer*)
(* columns hold integers).  A row is a function from the 14 column names   *)
(* to such values; the table is a set of rows (the PRIMARY KEY constraint  *)
(* is enforced by the insert operators, as SQLite enforces it).            *)
(*                                                                         *)
(* Request handlers are "def" routes, which FastAPI runs on a thread pool: *)
(* every statement on db_conn, the commit, and the file operations of      *)
(* save_sqlite_to_json are separate steps of a thread.                     *)
(***************************************************************************)
EXTENDS Integers, Sequences, FiniteSets, TLC

\* ------------------------------------------------------------------ bounds

\* number of requests accepted in one behaviour of Spec (concurrent requests)
MaxOps == 2

\* number of requests accepted in one behaviour of SpecSeq (one at a time)
MaxSeqOps == 3

\* number of requests accepted in one behaviour of SpecBoot (one at a time,
\* with restarts of the process)
MaxBootOps == 2

\* number of restarts of the process in one behaviour of SpecBoot
MaxRestarts == 1

\* ------------------------------------------------------------------ values

NULL == <<>>
Some(v) == <<v>>

\* request-handling threads of the pool
Threads == {1, 2}

\* the safelist of get_flights, which is also the table's schema
allowed_columns ==
    {"flight_id", "flight_number", "origin", "destination", "departure_time",
     "arrival_time", "duration_minutes", "aircraft_type", "seats_total",
     "seats_available", "status", "created_at", "updated_at", "process_id"}

\* the fields of FlightBase / FlightUpdate (client-writable)
FlightBase ==
    {"flight_number", "origin", "destination", "departure_time",
     "arrival_time", "duration_minutes", "aircraft_type", "seats_total",
     "seats_available", "status", "process_id"}

\* the seed file written by init_json_file
dummy_data ==
    << [flight_id |-> Some(1), flight_number |-> Some("SP1001"),
        origin |-> Some("JED"), destination |-> Some("JED"),
        departure_time |-> Some("2025-11-08T01:00:00"),
        arrival_time |-> Some("2025-11-08T01:57:00"),
        duration_minutes |-> Some(57), aircraft_type |-> Some("A321"),
        seats_total |-> Some(150), seats_available |-> Some(26),
        status |-> Some("departed"),
        created_at |-> Some("2025-10-10T01:00:00"),
        updated_at |-> Some("2025-11-08T01:00:00"),
        process_id |-> Some("P-238")],
       [flight_id |-> Some(2), flight_number |-> Some("SP1002"),
        origin |-> Some("THR"), destination |-> Some("JED"),
        departure_time |-> Some("2025-11-05T18:00:00"),
        arrival_time |-> Some("2025-11-05T19:00:00"),
        duration_minutes |-> Some(60), aircraft_type |-> Some("A321"),
        seats_total |-> Some(250), seats_available |-> Some(6),
        status |-> Some("departed"),
        created_at |-> Some("2025-10-13T18:00:00"),
        updated_at |-> Some("2025-11-02T18:00:00"),
        process_id |-> Some("P-215")] >>

\* the values datetime.now().strftime("%Y-%m-%d %H:%M:%S") returns while the
\* modelled requests run (the clock has one-second resolution; the seed
\* records carry older timestamps)
Times == {"2025-11-09 10:00:00"}

\* a body of POST /flights that passes FlightCreate (all 11 fields, non-null)
NewFlight ==
    [flight_number |-> Some("SP1003"), origin |-> Some("MHD"),
     destination |-> Some("THR"),
     departure_time |-> Some("2025-11-10T08:00:00"),
     arrival_time |-> Some("2025-11-10T09:30:00"),
     duration_minutes |-> Some(90), aircraft_type |-> Some("B737"),
     seats_total |-> Some(180), seats_available |-> Some(180),
     status |-> Some("scheduled"), process_id |-> Some("P-300")]

\* the bodies of POST /flights the clients send (two requests with the same
\* body create two records that differ in flight_id, and in the timestamps
\* when the clock has moved)
CreateBodies == { NewFlight }

\* the JSON object {} (no key)
EmptyObject == [k \in {} |-> NULL]

\* bodies of PUT /flights/{id} that pass FlightUpdate: sparse objects, a key
\* may carry null, and keys that are no field of FlightUpdate (flight_id,
\* created_at) are accepted and ignored by the pydantic model
UpdateBodies ==
    { EmptyObject,
      [status |-> Some("cancelled")],
      [status |-> NULL],
      [flight_id |-> Some(9), created_at |-> Some("1999-01-01T00:00:00")],
      [flight_id |-> Some(9), created_at |-> Some("1999-01-01T00:00:00"),
       origin |-> Some("THR"), seats_total |-> Some(250)] }

\* flight_id path parameters the clients use
RequestIds == 1 .. 3

\* ------------------------------------------------------- the SQLite table

Max(a, b) == IF a >= b THEN a ELSE b

\* the flight_ids (rowids) of a table
Ids(tbl) == { r["flight_id"][1] : r \in tbl }

MaxRowid(tbl) ==
    IF tbl = {} THEN 0
    ELSE CHOOSE m \in Ids(tbl) : \A i \in Ids(tbl) : i <= m

\* SELECT flight_id FROM flights WHERE flight_id = ? ; fetchone() is not None
Exists(tbl, id) == id \in Ids(tbl)

RowOf(tbl, id) == CHOOSE r \in tbl : r["flight_id"] = Some(id)

\* NextRowid for a column declared INTEGER PRIMARY KEY without AUTOINCREMENT:
\* one more than the largest rowid now in the table
NextRowid_no_autoincrement(tbl, sq) == MaxRowid(tbl) + 1

\* The rowid that INSERT without a flight_id gets.  The column is declared
\* INTEGER PRIMARY KEY AUTOINCREMENT: one more than the largest rowid the
\* table has ever held, which SQLite keeps in sqlite_sequence (sq).
NextRowid(tbl, sq) == Max(sq, MaxRowid(tbl)) + 1

\* a row of the table from the 13 non-key values and an id
MakeRow(id, vals) ==
    [c \in allowed_columns |->
        IF c = "flight_id" THEN Some(id) ELSE vals[c]]

\* INSERT INTO flights (13 columns) VALUES (...) of add_flight
InsertAuto(tbl, sq, vals) ==
    LET id == NextRowid(tbl, sq)
    IN  [table |-> tbl \cup {MakeRow(id, vals)}, seq |-> id, rowid |-> id]

\* UPDATE flights SET k = ?, ... WHERE flight_id = ?  (fields: column -> value)
UpdateRows(tbl, id, fields) ==
    { IF r["flight_id"] = Some(id)
        THEN [c \in allowed_columns |->
                 IF c \in DOMAIN fields THEN fields[c] ELSE r[c]]
        ELSE r : r \in tbl }

\* DeleteRows whose WHERE clause matches no row
DeleteRows_no_match(tbl, id) == tbl

\* DELETE FROM flights WHERE flight_id = ?
DeleteRows(tbl, id) == { r \in tbl : r["flight_id"] # Some(id) }

\* SelectAll with fetchone() in place of fetchall(): the first row only
SelectAll_fetchone(tbl) ==
    IF tbl = {} THEN << >>
    ELSE << CHOOSE r \in tbl : \A i \in Ids(tbl) : r["flight_id"][1] <= i >>

\* SELECT * FROM flights ; fetchall(): the rows in rowid order
RECURSIVE SelectAll(_)
SelectAll(tbl) ==
    IF tbl = {} THEN << >>
    ELSE LET m == RowOf(tbl, MaxRowid(tbl))
         IN  Append(SelectAll(tbl \ {m}), m)

\* ------------------------------------------------------- the JSON file

\* the columns in the order of CREATE TABLE, which is the key order of
\* dict(row) for SELECT *
table_columns ==
    << "flight_id", "flight_number", "origin", "destination", "departure_time",
       "arrival_time", "duration_minutes", "aircraft_type", "seats_total",
       "seats_available", "status", "created_at", "updated_at", "process_id" >>

\* the columns declared INTEGER
integer_columns ==
    {"flight_id", "duration_minutes", "seats_total", "seats_available"}

RECURSIVE Digits(_)
Digits(n) == IF n < 10 THEN 1 ELSE 1 + Digits(n \div 10)

\* length of the JSON text of one value: null, a number, a quoted string
JsonValueSize(c, v) ==
    IF v = NULL THEN 4
    ELSE IF c \in integer_columns THEN Digits(v[1])
    ELSE Len(v[1]) + 2

\* length of the lines json.dump(.., indent=4) writes for the keys k.. of one
\* object: 8 blanks, the quoted key, ": ", the value, "," (not after the last
\* key) and the newline
RECURSIVE JsonKeysSize(_, _)
JsonKeysSize(item, k) ==
    IF k > Len(table_columns) THEN 0
    ELSE LET c == table_columns[k]
         IN  8 + (Len(c) + 2) + 2 + JsonValueSize(c, item[c])
               + (IF k < Len(table_columns) THEN 1 ELSE 0) + 1
               + JsonKeysSize(item, k + 1)

\* length of the text json.dump(data, f, indent=4) writes for data[i..]: per
\* object "    {" newline, its keys, "    }", then "," or nothing, newline
RECURSIVE JsonItemsSize(_, _)
JsonItemsSize(data, i) ==
    IF i > Len(data) THEN 0
    ELSE 6 + JsonKeysSize(data[i], 1) + 5
           + (IF i < Len(data) THEN 1 ELSE 0) + 1
           + JsonItemsSize(data, i + 1)

\* "[]" for the empty array; else "[" newline, the objects, "]"
JsonSize(data) ==
    IF data = << >> THEN 2 ELSE 2 + JsonItemsSize(data, 1) + 1

\* The content of flights_sample.json: a JSON array of objects (kind "json"),
\* a zero-length file as open(.., "w") leaves it (kind "empty"), or the bytes
\* of two overlapping writes (kind "torn"); size is its length.  The last two
\* kinds do not parse.
JsonFile(data) == [kind |-> "json", data |-> data, size |-> JsonSize(data)]
EmptyFile == [kind |-> "empty", data |-> << >>, size |-> 0]
TornFile(size) == [kind |-> "torn", data |-> << >>, size |-> size]

\* item.get(key)
Get(item, key) == IF key \in DOMAIN item THEN item[key] ELSE NULL

\* data = [dict(row) for row in rows]; json.dump(data, f)
DumpRows(rows) ==
    JsonFile([i \in 1 .. Len(rows) |-> [c \in allowed_columns |-> rows[i][c]]])

\* LoadItems that leaves flight_id out of the INSERT: every item gets the
\* next rowid
RECURSIVE LoadItems_reassign(_, _, _, _)
LoadItems_reassign(data, i, tbl, sq) ==
    IF i > Len(data) THEN [table |-> tbl, seq |-> sq, ok |-> TRUE]
    ELSE LET ins == InsertAuto(tbl, sq,
                               [c \in allowed_columns |-> Get(data[i], c)])
         IN  LoadItems_reassign(data, i + 1, ins.table, ins.seq)

\* The INSERT loop of load_json_to_sqlite over data[i..]: every item is
\* inserted with its own flight_id (an item without one gets the next
\* rowid); an item whose flight_id is already in the table raises
\* sqlite3.IntegrityError, which ends the loop without commit and without
\* rollback, so the rows inserted so far stay in the open transaction.
RECURSIVE LoadItems(_, _, _, _)
LoadItems(data, i, tbl, sq) ==
    IF i > Len(data) THEN [table |-> tbl, seq |-> sq, ok |-> TRUE]
    ELSE LET item == data[i]
             fid == Get(item, "flight_id")
             vals == [c \in allowed_columns |-> Get(item, c)]
         IN  IF fid = NULL
               THEN LET ins == InsertAuto(tbl, sq, vals)
                    IN  LoadItems(data, i + 1, ins.table, ins.seq)
               ELSE IF Exists(tbl, fid[1])
                      THEN [table |-> tbl, seq |-> sq, ok |-> FALSE]
                      ELSE LoadItems(data, i + 1,
                                     tbl \cup {MakeRow(fid[1], vals)},
                                     Max(sq, fid[1]))

\* load_json_to_sqlite: DROP TABLE IF EXISTS, CREATE TABLE, then the file's
\* records.  Result: the table as the connection sees it, the committed
\* table, sqlite_sequence, and whether the load went through (ok) or ended
\* in the except clause (json.load or an INSERT raised).
load_json_to_sqlite(f) ==
    IF f.kind # "json"
      THEN [table |-> {}, committed |-> {}, seq |-> 0, ok |-> FALSE]
      ELSE LET l == LoadItems(f.data, 1, {}, 0)
           IN  [table |-> l.table,
                committed |-> IF l.ok /\ f.data # << >> THEN l.table ELSE {},
                seq |-> l.seq,
                ok |-> l.ok]

\* the snapshot files the process may find at startup
InitialFiles ==
    { JsonFile(dummy_data), JsonFile(<< >>) }

\* snapshot files a start may find, the ones that do not load included: an
\* array whose third element repeats the flight_id of the first, and a file
\* that is no JSON text
BootFiles ==
    InitialFiles \cup { JsonFile(dummy_data \o << dummy_data[1] >>), TornFile(10) }

\* ------------------------------------------------------------------ state

VARIABLES
    table,      \* the rows of "flights" as db_conn sees them
    committed,  \* the rows as of the last db_conn.commit()
    seq,        \* sqlite_sequence.seq of "flights" (0: no entry)
    file,       \* the content of flights_sample.json
    pc,         \* per thread: where its handler stands
    req,        \* per thread: the request it serves
    rows,       \* per thread: the rows fetched in save_sqlite_to_json
    lastrowid,  \* per thread: cursor.lastrowid
    resp,       \* per thread: the response of the finished handler
    ops,        \* number of requests accepted so far
    issued,     \* history: flight_ids loaded at startup or assigned since
    deleted,    \* history: flight_ids a DELETE statement was executed for
    lst,        \* the last GET /flights served: its query and its response
    boot        \* the last start of the process: how many restarts so far,
                \* whether load_json_to_sqlite went through, the rows it left

vars == << table, committed, seq, file, pc, req, rows, lastrowid, resp, ops,
           issued, deleted, lst, boot >>

\* The pool hands an accepted request to an idle thread; which one makes no
\* difference, so the model takes the first.
Free(t) ==
    /\ pc[t] = "idle"
    /\ \A u \in Threads : u < t => pc[u] # "idle"

NoReq == [op |-> "none", flight_id |-> 0, body |-> EmptyObject,
          fields |-> EmptyObject]
NoResp == [status |-> 0, detail |-> "", exc |-> "none", body |-> EmptyObject]

Response(status, detail, exc, body) ==
    [status |-> status, detail |-> detail, exc |-> exc, body |-> body]

ListResponse(status, detail, result) ==
    [status |-> status, detail |-> detail, rows |-> result]

NoList ==
    [q |-> [page |-> 0, per_page |-> 0, sort_by |-> "", sort_order |-> "",
            columns |-> "", filter_field |-> NULL, filter_value |-> NULL],
     res |-> ListResponse(0, "", << >>)]

\* the state after lifespan startup: init_json_file, load_json_to_sqlite
Init ==
    /\ file \in InitialFiles
    /\ LET l == load_json_to_sqlite(file)
       IN  /\ table = l.table
           /\ committed = l.committed
           /\ seq = l.seq
           /\ issued = Ids(l.table)
           /\ boot = [count |-> 0, ok |-> l.ok, rows |-> l.table]
    /\ pc = [t \in Threads |-> "idle"]
    /\ req = [t \in Threads |-> NoReq]
    /\ rows = [t \in Threads |-> << >>]
    /\ lastrowid = [t \in Threads |-> 0]
    /\ resp = [t \in Threads |-> NoResp]
    /\ ops = 0
    /\ deleted = {}
    /\ lst = NoList

\* ------------------------------------------------------------ POST /flights

\* CreateValues with two values bound in the wrong order (origin and
\* destination swapped in the VALUES tuple)
CreateValues_swapped(flight, current_time) ==
    [c \in allowed_columns \ {"flight_id"} |->
        IF c \in {"created_at", "updated_at"} THEN Some(current_time)
        ELSE IF c = "origin" THEN flight["destination"]
        ELSE IF c = "destination" THEN flight["origin"]
        ELSE flight[c]]

\* add_flight up to cursor.execute(INSERT): the 11 fields of the body plus
\* created_at = updated_at = current_time
CreateValues(flight, current_time) ==
    [c \in allowed_columns \ {"flight_id"} |->
        IF c \in {"created_at", "updated_at"} THEN Some(current_time)
        ELSE flight[c]]

add_flight(t) ==
    /\ Free(t)
    /\ \E flight \in CreateBodies, current_time \in Times :
         LET vals == CreateValues(flight, current_time)
             ins == InsertAuto(table, seq, vals)
         IN  /\ table' = ins.table
             /\ seq' = ins.seq
             /\ lastrowid' = [lastrowid EXCEPT ![t] = ins.rowid]
             /\ issued' = issued \cup {ins.rowid}
             /\ req' = [req EXCEPT ![t] =
                          [op |-> "create", flight_id |-> 0, body |-> flight,
                           fields |-> vals]]
    /\ pc' = [pc EXCEPT ![t] = "commit"]
    /\ ops' = ops + 1
    /\ UNCHANGED << lst, boot, committed, file, rows, resp, deleted >>

\* the response of add_flight: flight_id = cursor.lastrowid, **flight.dict(),
\* created_at, updated_at
CreateResponse(new_id, vals) ==
    Response(200, "Flight created", "none", MakeRow(new_id, vals))

\* ------------------------------------------------------ PUT /flights/{id}

\* ExcludeUnset without exclude_unset=True (flight.dict()): every field of
\* FlightUpdate, None for the ones the body does not name
ExcludeUnset_all(body) ==
    [k \in FlightBase |-> IF k \in DOMAIN body THEN body[k] ELSE NULL]

\* flight.dict(exclude_unset=True): the keys of the body that are fields of
\* FlightUpdate, with their values (null included)
ExcludeUnset(body) ==
    [k \in DOMAIN body \cap FlightBase |-> body[k]]

\* fields['updated_at'] = datetime.now()...
WithUpdatedAt(fields, current_time) ==
    [k \in DOMAIN fields \cup {"updated_at"} |->
        IF k = "updated_at" THEN Some(current_time) ELSE fields[k]]

\* update_flight with the two checks in the other order: the field set
\* first, the existence SELECT second
update_flight_fields_first(t) ==
    /\ Free(t)
    /\ \E flight_id \in RequestIds, body \in UpdateBodies, current_time \in Times :
         LET fields == ExcludeUnset(body)
             r == [op |-> "update", flight_id |-> flight_id, body |-> body,
                   fields |-> EmptyObject]
         IN  IF DOMAIN fields = {}
               THEN /\ req' = [req EXCEPT ![t] = r]
                    /\ resp' = [resp EXCEPT ![t] =
                          Response(400, "No fields to update", "none", EmptyObject)]
                    /\ pc' = [pc EXCEPT ![t] = "done"]
               ELSE IF ~Exists(table, flight_id)
                 THEN /\ req' = [req EXCEPT ![t] = r]
                      /\ resp' = [resp EXCEPT ![t] =
                            Response(404, "Flight not found", "none", EmptyObject)]
                      /\ pc' = [pc EXCEPT ![t] = "done"]
                 ELSE /\ req' = [req EXCEPT ![t] =
                            [r EXCEPT !.fields = WithUpdatedAt(fields, current_time)]]
                      /\ resp' = resp
                      /\ pc' = [pc EXCEPT ![t] = "update"]
    /\ ops' = ops + 1
    /\ UNCHANGED << lst, boot, table, committed, seq, file, rows, lastrowid, issued, deleted >>

\* update_flight up to the UPDATE statement: the existence SELECT, then the
\* check of the field set
update_flight(t) ==
    /\ Free(t)
    /\ \E flight_id \in RequestIds, body \in UpdateBodies, current_time \in Times :
         LET fields == ExcludeUnset(body)
             r == [op |-> "update", flight_id |-> flight_id, body |-> body,
                   fields |-> EmptyObject]
         IN  IF ~Exists(table, flight_id)
               THEN /\ req' = [req EXCEPT ![t] = r]
                    /\ resp' = [resp EXCEPT ![t] =
                          Response(404, "Flight not found", "none", EmptyObject)]
                    /\ pc' = [pc EXCEPT ![t] = "done"]
               ELSE IF DOMAIN fields = {}
                 THEN /\ req' = [req EXCEPT ![t] = r]
                      /\ resp' = [resp EXCEPT ![t] =
                            Response(400, "No fields to update", "none", EmptyObject)]
                      /\ pc' = [pc EXCEPT ![t] = "done"]
                 ELSE /\ req' = [req EXCEPT ![t] =
                            [r EXCEPT !.fields = WithUpdatedAt(fields, current_time)]]
                      /\ resp' = resp
                      /\ pc' = [pc EXCEPT ![t] = "update"]
    /\ ops' = ops + 1
    /\ UNCHANGED << lst, boot, table, committed, seq, file, rows, lastrowid, issued, deleted >>

\* cursor.execute(UPDATE ... WHERE flight_id = ?)
update_flight_execute(t) ==
    /\ pc[t] = "update"
    /\ table' = UpdateRows(table, req[t].flight_id, req[t].fields)
    /\ pc' = [pc EXCEPT ![t] = "commit"]
    /\ UNCHANGED << lst, boot, committed, seq, file, req, rows, lastrowid, resp, ops,
                    issued, deleted >>

\* --------------------------------------------------- DELETE /flights/{id}

\* delete_flight up to the DELETE statement: the existence SELECT
delete_flight(t) ==
    /\ Free(t)
    /\ \E flight_id \in RequestIds :
         LET r == [op |-> "delete", flight_id |-> flight_id,
                   body |-> EmptyObject, fields |-> EmptyObject]
         IN  /\ req' = [req EXCEPT ![t] = r]
             /\ IF ~Exists(table, flight_id)
                  THEN /\ resp' = [resp EXCEPT ![t] =
                             Response(404, "Flight not found", "none", EmptyObject)]
                       /\ pc' = [pc EXCEPT ![t] = "done"]
                  ELSE /\ resp' = resp
                       /\ pc' = [pc EXCEPT ![t] = "delete"]
    /\ ops' = ops + 1
    /\ UNCHANGED << lst, boot, table, committed, seq, file, rows, lastrowid, issued, deleted >>

\* cursor.execute(DELETE ... WHERE flight_id = ?)
delete_flight_execute(t) ==
    /\ pc[t] = "delete"
    /\ table' = DeleteRows(table, req[t].flight_id)
    /\ deleted' = deleted \cup {req[t].flight_id}
    /\ pc' = [pc EXCEPT ![t] = "commit"]
    /\ UNCHANGED << lst, boot, committed, seq, file, req, rows, lastrowid, resp, ops, issued >>

\* ------------------------------------- commit and save_sqlite_to_json

\* db_commit with the commit moved behind save_sqlite_to_json: nothing is
\* committed before the resync starts
db_commit_after_save(t) ==
    /\ pc[t] = "commit"
    /\ pc' = [pc EXCEPT ![t] = "save_select"]
    /\ UNCHANGED << lst, boot, table, committed, seq, file, req, rows, lastrowid, resp,
                    ops, issued, deleted >>

\* db_conn.commit(): the connection is shared, so it commits whatever any
\* thread has executed on it
db_commit(t) ==
    /\ pc[t] = "commit"
    /\ committed' = table
    /\ pc' = [pc EXCEPT ![t] = "save_select"]
    /\ UNCHANGED << lst, boot, table, seq, file, req, rows, lastrowid, resp, ops,
                    issued, deleted >>

\* save_sqlite_to_json: SELECT * FROM flights; fetchall()
save_select(t) ==
    /\ pc[t] = "save_select"
    /\ rows' = [rows EXCEPT ![t] = SelectAll(table)]
    /\ pc' = [pc EXCEPT ![t] = "save_open"]
    /\ UNCHANGED << lst, boot, table, committed, seq, file, req, lastrowid, resp, ops,
                    issued, deleted >>

\* save_sqlite_to_json: open(JSON_FILENAME, "w") truncates the file
save_open(t) ==
    /\ pc[t] = "save_open"
    /\ file' = EmptyFile
    /\ pc' = [pc EXCEPT ![t] = "save_dump"]
    /\ UNCHANGED << lst, boot, table, committed, seq, req, rows, lastrowid, resp, ops,
                    issued, deleted >>

\* the response of a handler whose save_sqlite_to_json returned
SuccessResponse(r, new_id) ==
    CASE r.op = "create" -> CreateResponse(new_id, r.fields)
      [] r.op = "update" -> Response(200, "Flight updated", "none", r.fields)
      [] r.op = "delete" -> Response(200, "Flight deleted", "none", EmptyObject)

\* What the file holds after this thread's json.dump and close.  The thread
\* writes its text from offset 0 of the file object it opened.  The file is
\* still empty unless another thread wrote it since this thread's open; the
\* bytes of that write beyond this thread's text stay in the file, so a
\* shorter text leaves a file that does not parse.
WriteOver(current, text) ==
    IF text.size >= current.size THEN text ELSE TornFile(current.size)

\* save_sqlite_to_json: json.dump(data, f) and close; then the handler returns
save_dump(t) ==
    /\ pc[t] = "save_dump"
    /\ file' = WriteOver(file, DumpRows(rows[t]))
    /\ rows' = [rows EXCEPT ![t] = << >>]
    /\ resp' = [resp EXCEPT ![t] = SuccessResponse(req[t], lastrowid[t])]
    /\ pc' = [pc EXCEPT ![t] = "done"]
    /\ UNCHANGED << lst, boot, table, committed, seq, req, lastrowid, ops, issued, deleted >>

\* ErrorResponse with the exception swallowed: the handler answers 200
ErrorResponse_swallowed(e) ==
    Response(200, "Flight saved", e, EmptyObject)

\* What the client gets when save_sqlite_to_json raises e: sqlite3.Error is
\* caught by the handler's except clause and raised as HTTPException(500);
\* any other exception leaves the handler and the server answers 500.
ErrorResponse(e) ==
    IF e = "sqlite3.Error"
      THEN Response(500, "sqlite3.Error", e, EmptyObject)
      ELSE Response(500, "Internal Server Error", e, EmptyObject)

\* save_sqlite_to_json raises: the SELECT fails (sqlite3.Error), or open or
\* the write fails (OSError).  Nothing is rolled back.
save_raises(t) ==
    /\ pc[t] \in {"save_select", "save_open", "save_dump"}
    /\ LET e == IF pc[t] = "save_select" THEN "sqlite3.Error" ELSE "OSError"
       IN  resp' = [resp EXCEPT ![t] = ErrorResponse(e)]
    /\ rows' = [rows EXCEPT ![t] = << >>]
    /\ pc' = [pc EXCEPT ![t] = "done"]
    /\ UNCHANGED << lst, boot, table, committed, seq, file, req, lastrowid, ops,
                    issued, deleted >>

\* the response is sent and the thread goes back to the pool
respond(t) ==
    /\ pc[t] = "done"
    /\ pc' = [pc EXCEPT ![t] = "idle"]
    /\ req' = [req EXCEPT ![t] = NoReq]
    /\ resp' = [resp EXCEPT ![t] = NoResp]
    /\ lastrowid' = [lastrowid EXCEPT ![t] = 0]
    /\ UNCHANGED << lst, boot, table, committed, seq, file, rows, ops, issued, deleted >>

\* ------------------------------------------------------------- lifespan

\* The process is shut down (no request in service, db_conn.close() drops
\* the in-memory database) and started again: init_json_file finds the file
\* and leaves it, load_json_to_sqlite builds the table from it.
lifespan ==
    /\ \A t \in Threads : pc[t] = "idle"
    /\ LET l == load_json_to_sqlite(file)
       IN  /\ table' = l.table
           /\ committed' = l.committed
           /\ seq' = l.seq
           /\ issued' = issued \cup Ids(l.table)
           /\ boot' = [count |-> boot.count + 1, ok |-> l.ok, rows |-> l.table]
    /\ UNCHANGED << file, pc, req, rows, lastrowid, resp, ops, deleted, lst >>

\* ------------------------------------------------------------ GET /flights

Ch(s, i) == SubSeq(s, i, i)

\* the printable ASCII characters in code order (32 .. 126, without the
\* backquote)
Ascii ==
    " !\"#$%&'()*+,-./0123456789:;<=>?@ABCDEFGHIJKLMNOPQRSTUVWXYZ[\\]^_abcdefghijklmnopqrstuvwxyz{|}~"

\* the rank of a character in code order (its place in Ascii)
Ord(c) == CHOOSE i \in 1 .. Len(Ascii) : Ch(Ascii, i) = c

LowerLetters == "abcdefghijklmnopqrstuvwxyz"
UpperLetters == "ABCDEFGHIJKLMNOPQRSTUVWXYZ"

UpperChar(c) ==
    IF \E i \in 1 .. Len(LowerLetters) : Ch(LowerLetters, i) = c
      THEN Ch(UpperLetters, CHOOSE i \in 1 .. Len(LowerLetters) : Ch(LowerLetters, i) = c)
      ELSE c

\* str.upper()
RECURSIVE Upper(_)
Upper(s) == IF s = "" THEN "" ELSE UpperChar(Ch(s, 1)) \o Upper(Tail(s))

\* str.split(","): the pieces between the commas (one piece for no comma)
RECURSIVE SplitComma(_)
SplitComma(s) ==
    IF \E i \in 1 .. Len(s) : Ch(s, i) = ","
      THEN LET i == CHOOSE k \in 1 .. Len(s) :
                       /\ Ch(s, k) = ","
                       /\ \A j \in 1 .. k - 1 : Ch(s, j) # ","
           IN  << SubSeq(s, 1, i - 1) >> \o SplitComma(SubSeq(s, i + 1, Len(s)))
      ELSE << s >>

Whitespace == {" ", "\t"}

\* str.strip()
RECURSIVE Strip(_)
Strip(s) ==
    IF s = "" THEN ""
    ELSE IF Ch(s, 1) \in Whitespace THEN Strip(Tail(s))
    ELSE IF Ch(s, Len(s)) \in Whitespace THEN Strip(SubSeq(s, 1, Len(s) - 1))
    ELSE s

\* the decimal text of a non-negative integer
RECURSIVE Decimal(_)
Decimal(n) ==
    IF n < 10 THEN Ch("0123456789", n + 1)
    ELSE Decimal(n \div 10) \o Ch("0123456789", (n % 10) + 1)

\* the text SQLite compares in LIKE for a non-NULL value of column c
Text(c, v) == IF c \in integer_columns THEN Decimal(v[1]) ELSE v[1]

\* SQLite's LIKE from position i of the pattern and j of the text: "%"
\* matches any run of characters, "_" any one character, a letter matches
\* in either case, any other character matches itself
RECURSIVE LikeAt(_, _, _, _)
LikeAt(p, i, s, j) ==
    IF i > Len(p) THEN j > Len(s)
    ELSE IF Ch(p, i) = "%"
      THEN \/ LikeAt(p, i + 1, s, j)
           \/ j <= Len(s) /\ LikeAt(p, i, s, j + 1)
      ELSE /\ j <= Len(s)
           /\ \/ Ch(p, i) = "_"
              \/ UpperChar(Ch(p, i)) = UpperChar(Ch(s, j))
           /\ LikeAt(p, i + 1, s, j + 1)

Like(p, s) == LikeAt(p, 1, s, 1)

\* Where with = in place of LIKE: the value as text equals filter_value
Where_equals(tbl, filter_field, filter_value) ==
    { r \in tbl :
        /\ r[filter_field] # NULL
        /\ Text(filter_field, r[filter_field]) = filter_value }

\* WHERE filter_field LIKE ? with the parameter "%" + filter_value + "%"
\* (NULL LIKE anything is not true)
Where(tbl, filter_field, filter_value) ==
    { r \in tbl :
        /\ r[filter_field] # NULL
        /\ Like("%" \o filter_value \o "%", Text(filter_field, r[filter_field])) }

\* text comparison (BINARY collation): a < b
RECURSIVE TextLess(_, _)
TextLess(a, b) ==
    IF b = "" THEN FALSE
    ELSE IF a = "" THEN TRUE
    ELSE IF Ch(a, 1) = Ch(b, 1) THEN TextLess(Tail(a), Tail(b))
    ELSE Ord(Ch(a, 1)) < Ord(Ch(b, 1))

\* SQLite's order of two values of column c: NULL first, then by value
ValueLess(c, a, b) ==
    IF b = NULL THEN FALSE
    ELSE IF a = NULL THEN TRUE
    ELSE IF c \in integer_columns THEN a[1] < b[1]
    ELSE TextLess(a[1], b[1])

\* r comes before q under ORDER BY sort_by direction; rows with equal keys
\* come out in rowid order
Before(r, q, sort_by, direction) ==
    LET lt == IF direction = "ASC" THEN ValueLess(sort_by, r[sort_by], q[sort_by])
              ELSE ValueLess(sort_by, q[sort_by], r[sort_by])
        gt == IF direction = "ASC" THEN ValueLess(sort_by, q[sort_by], r[sort_by])
              ELSE ValueLess(sort_by, r[sort_by], q[sort_by])
    IN  lt \/ (~gt /\ r["flight_id"][1] < q["flight_id"][1])

\* ORDER BY sort_by direction
RECURSIVE OrderBy(_, _, _)
OrderBy(tbl, sort_by, direction) ==
    IF tbl = {} THEN << >>
    ELSE LET first == CHOOSE r \in tbl :
                        \A q \in tbl \ {r} : Before(r, q, sort_by, direction)
         IN  << first >> \o OrderBy(tbl \ {first}, sort_by, direction)

\* LimitOffset with the offset taken as page * per_page
LimitOffset_page_as_offset(sorted, limit, offset) ==
    SubSeq(sorted, offset + limit + 1,
           IF offset + 2 * limit < Len(sorted)
             THEN offset + 2 * limit ELSE Len(sorted))

\* LIMIT per_page OFFSET offset
LimitOffset(sorted, limit, offset) ==
    SubSeq(sorted, offset + 1,
           IF offset + limit < Len(sorted) THEN offset + limit ELSE Len(sorted))

\* dict(row) for the select clause: the keys are the selected column names
Project(r, selected) == [c \in selected |-> r[c]]

\* ParametersValid with the pattern of sort_order matched in any case
ParametersValid_any_case(q) ==
    /\ q.page >= 1
    /\ q.per_page >= 1 /\ q.per_page <= 100
    /\ Upper(q.sort_order) \in {"ASC", "DESC"}

\* the declared constraints of the query parameters (Query(ge=, le=, regex=)),
\* checked by FastAPI before get_flights runs
ParametersValid(q) ==
    /\ q.page >= 1
    /\ q.per_page >= 1 /\ q.per_page <= 100
    /\ q.sort_order \in {"asc", "desc"}

\* `if filter_field and filter_value`: both given and neither empty
FilterGiven(q) ==
    /\ q.filter_field # NULL /\ q.filter_field[1] # ""
    /\ q.filter_value # NULL /\ q.filter_value[1] # ""

\* InvalidColumns that reports the names trimmed
InvalidColumns_stripped(columns) ==
    LET selected_columns == SplitComma(columns)
        bad == SelectSeq(selected_columns,
                         LAMBDA col : Strip(col) \notin allowed_columns)
    IN  [i \in 1 .. Len(bad) |-> Strip(bad[i])]

\* InvalidColumns that looks at the first name of the list only
InvalidColumns_first_only(columns) ==
    LET selected_columns == SplitComma(columns)
    IN  IF Strip(selected_columns[1]) \notin allowed_columns
          THEN << selected_columns[1] >> ELSE << >>

\* the column names of the list "columns" that are not in the safelist,
\* as written
InvalidColumns(columns) ==
    LET selected_columns == SplitComma(columns)
    IN  SelectSeq(selected_columns, LAMBDA col : Strip(col) \notin allowed_columns)

\* get_flights: the response for query q on table tbl
get_flights(tbl, q) ==
    IF ~ParametersValid(q)
      THEN ListResponse(422, "Unprocessable Entity", << >>)
    ELSE IF q.columns # "*" /\ InvalidColumns(q.columns) # << >>
      THEN ListResponse(400, "Invalid column: " \o InvalidColumns(q.columns)[1], << >>)
    ELSE IF q.sort_by \notin allowed_columns
      THEN ListResponse(400, "Invalid sort column", << >>)
    ELSE IF FilterGiven(q) /\ q.filter_field[1] \notin allowed_columns
      THEN ListResponse(400, "Invalid filter field", << >>)
    ELSE
      LET selected ==
              IF q.columns = "*" THEN allowed_columns
              ELSE LET cols == SplitComma(q.columns)
                   IN  { Strip(cols[i]) : i \in 1 .. Len(cols) }
          named == selected \cup {q.sort_by}
                     \cup (IF FilterGiven(q) THEN {q.filter_field[1]} ELSE {})
      IN  IF ~(named \subseteq allowed_columns)
            THEN \* cursor.execute raises sqlite3.Error (no such column)
                 ListResponse(500, "no such column", << >>)
            ELSE
              LET matching ==
                      IF FilterGiven(q)
                        THEN Where(tbl, q.filter_field[1], q.filter_value[1])
                        ELSE tbl
                  sorted == OrderBy(matching, q.sort_by, Upper(q.sort_order))
                  offset == (q.page - 1) * q.per_page
                  page_rows == LimitOffset(sorted, q.per_page, offset)
              IN  ListResponse(200, "",
                      [i \in 1 .. Len(page_rows) |->
                          Project(page_rows[i], selected)])

\* the queries of GET /flights the clients send
ListQueries ==
    [page : {1, 2, 3},
     per_page : {1, 10},
     sort_by : {"flight_id", "status", "bogus"},
     sort_order : {"asc", "desc", "ASC", "Desc", "up"},
     columns : {"*", "origin", " flight_id , status", "origin, bogus", "",
                "flight_id,"},
     filter_field : {NULL, Some(""), Some("status"), Some("seats_total"),
                     Some("bogus")},
     filter_value : {NULL, Some(""), Some("dep"), Some("DEP"), Some("e_a"),
                     Some("1%0")}]

\* get_flights_request that opens the snapshot file for writing
get_flights_request_opens_file ==
    /\ lst' = [lst EXCEPT !.res = get_flights(table, lst.q)]
    /\ file' = EmptyFile
    /\ UNCHANGED << table, committed, seq, pc, req, rows, lastrowid,
                    resp, ops, issued, deleted, boot >>

\* GET /flights with the query lst.q: the handler reads the table and returns
get_flights_request ==
    /\ lst' = [lst EXCEPT !.res = get_flights(table, lst.q)]
    /\ UNCHANGED << table, committed, seq, file, pc, req, rows, lastrowid,
                    resp, ops, issued, deleted, boot >>

\* ---------------------------------------------------------- specifications

\* requests served concurrently by the thread pool
Next ==
    \/ ops < MaxOps /\ \E t \in Threads : add_flight(t)
    \/ ops < MaxOps /\ \E t \in Threads : update_flight(t)
    \/ \E t \in Threads : update_flight_execute(t)
    \/ ops < MaxOps /\ \E t \in Threads : delete_flight(t)
    \/ \E t \in Threads : delete_flight_execute(t)
    \/ \E t \in Threads : db_commit(t)
    \/ \E t \in Threads : save_select(t)
    \/ \E t \in Threads : save_open(t)
    \/ \E t \in Threads : save_dump(t)
    \/ \E t \in Threads : save_raises(t)
    \/ \E t \in Threads : respond(t)

Spec == Init /\ [][Next]_vars

\* requests served one at a time: a thread takes a step only while every
\* other thread is idle
Alone(t) == \A u \in Threads \ {t} : pc[u] = "idle"

NextSeq ==
    \/ ops < MaxSeqOps /\ \E t \in Threads : Alone(t) /\ add_flight(t)
    \/ ops < MaxSeqOps /\ \E t \in Threads : Alone(t) /\ update_flight(t)
    \/ \E t \in Threads : Alone(t) /\ update_flight_execute(t)
    \/ ops < MaxSeqOps /\ \E t \in Threads : Alone(t) /\ delete_flight(t)
    \/ \E t \in Threads : Alone(t) /\ delete_flight_execute(t)
    \/ \E t \in Threads : Alone(t) /\ db_commit(t)
    \/ \E t \in Threads : Alone(t) /\ save_select(t)
    \/ \E t \in Threads : Alone(t) /\ save_open(t)
    \/ \E t \in Threads : Alone(t) /\ save_dump(t)
    \/ \E t \in Threads : Alone(t) /\ save_raises(t)
    \/ \E t \in Threads : Alone(t) /\ respond(t)

SpecSeq == Init /\ [][NextSeq]_vars

\* the state after lifespan startup on any file of BootFiles
InitBoot ==
    /\ file \in BootFiles
    /\ LET l == load_json_to_sqlite(file)
       IN  /\ table = l.table
           /\ committed = l.committed
           /\ seq = l.seq
           /\ issued = Ids(l.table)
           /\ boot = [count |-> 0, ok |-> l.ok, rows |-> l.table]
    /\ pc = [t \in Threads |-> "idle"]
    /\ req = [t \in Threads |-> NoReq]
    /\ rows = [t \in Threads |-> << >>]
    /\ lastrowid = [t \in Threads |-> 0]
    /\ resp = [t \in Threads |-> NoResp]
    /\ ops = 0
    /\ deleted = {}
    /\ lst = NoList

NextBoot ==
    \/ ops < MaxBootOps /\ \E t \in Threads : Alone(t) /\ add_flight(t)
    \/ ops < MaxBootOps /\ \E t \in Threads : Alone(t) /\ update_flight(t)
    \/ \E t \in Threads : Alone(t) /\ update_flight_execute(t)
    \/ ops < MaxBootOps /\ \E t \in Threads : Alone(t) /\ delete_flight(t)
    \/ \E t \in Threads : Alone(t) /\ delete_flight_execute(t)
    \/ \E t \in Threads : Alone(t) /\ db_commit(t)
    \/ \E t \in Threads : Alone(t) /\ save_select(t)
    \/ \E t \in Threads : Alone(t) /\ save_open(t)
    \/ \E t \in Threads : Alone(t) /\ save_dump(t)
    \/ \E t \in Threads : Alone(t) /\ save_raises(t)
    \/ \E t \in Threads : Alone(t) /\ respond(t)
    \/ boot.count < MaxRestarts /\ lifespan

\* requests served one at a time by a process that may be restarted between
\* two requests
SpecBoot == InitBoot /\ [][NextBoot]_vars

\* the stores the list requests are served from: the seed records, the
\* seed records with the record a POST /flights adds, and the latter with
\* the first seed record deleted
ListStores ==
    LET seed == load_json_to_sqlite(JsonFile(dummy_data))
        more == InsertAuto(seed.table, seed.seq,
                           CreateValues(NewFlight, CHOOSE now \in Times : TRUE))
    IN  { [table |-> seed.table, seq |-> seed.seq],
          [table |-> more.table, seq |-> more.seq],
          [table |-> DeleteRows(more.table, 1), seq |-> more.seq] }

InitList ==
    /\ \E st \in ListStores : table = st.table /\ seq = st.seq
    /\ committed = table
    /\ file = DumpRows(SelectAll(table))
    /\ issued = Ids(table)
    /\ pc = [t \in Threads |-> "idle"]
    /\ req = [t \in Threads |-> NoReq]
    /\ rows = [t \in Threads |-> << >>]
    /\ lastrowid = [t \in Threads |-> 0]
    /\ resp = [t \in Threads |-> NoResp]
    /\ ops = 0
    /\ deleted = {}
    /\ \E q \in ListQueries : lst = [q |-> q, res |-> NoList.res]
    /\ boot = [count |-> 0, ok |-> TRUE, rows |-> table]

NextList == get_flights_request

\* a list request (any query of ListQueries) on a store that no request
\* changes meanwhile
SpecList == InitList /\ [][NextList]_vars

\* ------------------------------------------------------------------ claims

\* the JSON file parses to an array that holds every row of the table once,
\* with the same value in each of the 14 fields, and nothing else
SnapshotMatches(f, tbl) ==
    /\ f.kind = "json"
    /\ Len(f.data) = Cardinality(tbl)
    /\ { f.data[i] : i \in 1 .. Len(f.data) } = tbl

Finished(t) == pc[t] = "done"

Succeeded(t) == Finished(t) /\ resp[t].status = 200

\* save_sqlite_to_json raised in the handler of t
ResyncFailed(t) == Finished(t) /\ resp[t].exc # "none"

\* C1: with requests served one at a time, when a Create, Update or Delete
\* has completed and its resync succeeded, the JSON file holds exactly the
\* records of the table: the same flight_ids and, per flight_id, the same
\* values in all 14 fields.
C1_SnapshotEqualsTable ==
    \A t \in Threads : Succeeded(t) => SnapshotMatches(file, table)

C1_Witness ==
    \E t \in Threads :
        /\ Succeeded(t)
        /\ req[t].op = "update"
        /\ ops = MaxSeqOps
        /\ Cardinality(table) >= 2

\* C2 (as claimed): once all of the concurrent mutations have completed, the
\* JSON file equals the final table, so it misses no completed mutation.
C2_ConcurrentSnapshotEqualsTable ==
    (\A t \in Threads : Succeeded(t)) => SnapshotMatches(file, table)

\* C3 (as claimed): when the resync fails after the mutation was committed,
\* the request is still reported as successful.
C3_ResyncFailureReportedAsSuccess ==
    \A t \in Threads : ResyncFailed(t) => resp[t].status = 200

\* C3 (amended): when the resync fails after the mutation was committed, the
\* request is reported to the caller as an internal error (status 500).
C3_ResyncFailureReportedAsError ==
    \A t \in Threads : ResyncFailed(t) => resp[t].status = 500

C3_Witness ==
    \E t \in Threads :
        /\ ResyncFailed(t)
        /\ req[t].op = "create"
        /\ Exists(committed, lastrowid[t])

\* what the request of t has changed, read in table tbl
ChangeIn(tbl, t) ==
    CASE req[t].op = "create" ->
            /\ Exists(tbl, lastrowid[t])
            /\ RowOf(tbl, lastrowid[t]) = MakeRow(lastrowid[t], req[t].fields)
      [] req[t].op = "update" ->
            /\ Exists(tbl, req[t].flight_id)
            /\ \A c \in DOMAIN req[t].fields :
                  RowOf(tbl, req[t].flight_id)[c] = req[t].fields[c]
      [] req[t].op = "delete" -> ~Exists(tbl, req[t].flight_id)

\* C4: with requests served one at a time, when the resync fails after a
\* Create, Update or Delete, the mutation is not rolled back: the table, as
\* committed and as every later request reads it, has the created record,
\* the new values of the updated fields, and not the deleted record.
C4_ResyncFailureKeepsMutation ==
    \A t \in Threads :
        ResyncFailed(t) => ChangeIn(table, t) /\ ChangeIn(committed, t)

C4_Witness ==
    \E t \in Threads :
        /\ ResyncFailed(t)
        /\ req[t].op = "delete"
        /\ file.kind = "json"
        /\ ~SnapshotMatches(file, table)

\* thread t takes a request of kind op in this step
Starts(t, op) == pc[t] = "idle" /\ pc'[t] # "idle" /\ req'[t].op = op

\* the columns an update with this body may change
MayChange(body) ==
    ((DOMAIN body) \cup {"updated_at"}) \ {"flight_id", "created_at"}

\* the step from tbl to tbl2 keeps the set of flight_ids, every record other
\* than r.flight_id, and in that record every column outside MayChange
UpdateFrame(tbl, tbl2, r) ==
    /\ Cardinality(tbl2) = Cardinality(tbl)
    /\ \A old \in tbl :
         \E new \in tbl2 :
            /\ new["flight_id"] = old["flight_id"]
            /\ IF old["flight_id"] = Some(r.flight_id)
                 THEN \A c \in allowed_columns \ MayChange(r.body) :
                         new[c] = old[c]
                 ELSE new = old

\* C5: the UPDATE statement of an Update changes, in the record addressed,
\* only fields that are present in the request body, plus updated_at;
\* every field the body omits, and flight_id and created_at in any case,
\* keep their values, and every other record is unchanged.
C5_UpdateChangesOnlyGivenFields ==
    [][\A t \in Threads :
          (pc[t] = "update" /\ pc'[t] = "commit")
              => UpdateFrame(table, table', req[t])]_vars

C5_Witness ==
    \E t \in Threads :
        /\ pc[t] = "commit"
        /\ req[t].op = "update"
        /\ req[t].flight_id = 1
        /\ DOMAIN req[t].body = {"flight_id", "created_at", "origin", "seats_total"}
        /\ \E r \in table :
              /\ r["flight_id"] = Some(1)
              /\ r["origin"] = Some("THR")
              /\ r["destination"] = Some("JED")
              /\ r["created_at"] = Some("2025-10-10T01:00:00")
              /\ r["updated_at"] \in { Some(now) : now \in Times }

StoresUnchanged ==
    /\ table' = table
    /\ committed' = committed
    /\ seq' = seq
    /\ file' = file

\* C6: an Update of a flight_id that is not in the table is answered 404
\* whatever the body (the empty one included), an Update of a flight_id that
\* is in the table with a body that names no field of FlightUpdate is
\* answered 400; either way the handler ends in that step, with the table
\* and the file as they were (nothing written, no resync).
C6_UpdateRejections ==
    [][\A t \in Threads :
          Starts(t, "update") =>
              LET id == req'[t].flight_id
                  body == req'[t].body
              IN  /\ id \notin Ids(table) =>
                        /\ resp'[t].status = 404
                        /\ pc'[t] = "done"
                        /\ StoresUnchanged
                  /\ (id \in Ids(table) /\ DOMAIN body \cap FlightBase = {}) =>
                        /\ resp'[t].status = 400
                        /\ pc'[t] = "done"
                        /\ StoresUnchanged]_vars

C6_Witness ==
    /\ \E t \in Threads :
          /\ Finished(t) /\ req[t].op = "update"
          /\ resp[t].status = 404
          /\ req[t].body = EmptyObject
    /\ \E t \in Threads :
          /\ Finished(t) /\ req[t].op = "update"
          /\ resp[t].status = 400
          /\ req[t].flight_id \in Ids(table)

\* the query of GET /flights with its defaults, and the largest page size
WholeTableQuery ==
    [page |-> 1, per_page |-> 100, sort_by |-> "flight_id",
     sort_order |-> "asc", columns |-> "*",
     filter_field |-> NULL, filter_value |-> NULL]

\* the flight_ids a list of the whole table returns
ListedIds(tbl) ==
    LET res == get_flights(tbl, WholeTableQuery)
    IN  { res.rows[i]["flight_id"][1] : i \in 1 .. Len(res.rows) }

\* C7: once a DELETE has been executed for flight_id d, d is in no later
\* state of the table and in no list result, whatever requests follow, and
\* every Update or Delete of d taken up afterwards is answered 404.
C7_DeletedIdStaysGone ==
    /\ [](\A d \in deleted : d \notin Ids(table) /\ d \notin ListedIds(table))
    /\ [][\A t \in Threads :
             ((Starts(t, "update") \/ Starts(t, "delete"))
                 /\ req'[t].flight_id \in deleted)
             => (resp'[t].status = 404 /\ pc'[t] = "done")]_vars

C7_Witness ==
    \E d \in deleted :
        /\ \E i \in Ids(table) : i > d
        /\ \E t \in Threads :
              /\ Finished(t)
              /\ req[t].op = "create"
              /\ Succeeded(t)

\* C8: every Create assigns a flight_id greater than every flight_id loaded
\* at startup or assigned before, those of deleted records included; no two
\* records of the table share a flight_id.
C8_FlightIdsIncrease ==
    /\ [](Cardinality(Ids(table)) = Cardinality(table))
    /\ [][\A t \in Threads :
             Starts(t, "create") =>
                 /\ \A i \in issued : lastrowid'[t] > i
                 /\ lastrowid'[t] \in Ids(table') \ Ids(table)]_vars

C8_Witness ==
    \E t \in Threads :
        /\ Succeeded(t)
        /\ req[t].op = "create"
        /\ MaxRowid(table) = lastrowid[t]
        /\ \E d \in deleted : \A i \in Ids(table) \ {lastrowid[t]} : d > i

\* C9: with requests served one at a time, after a successful Create the
\* table has exactly one record with the flight_id of the response; its 11
\* client fields are the values of the request body, its created_at equals
\* its updated_at, and a list of the whole table with no filter returns it
\* with the values of the Create response.
C9_CreateRoundTrip ==
    \A t \in Threads :
        (Succeeded(t) /\ req[t].op = "create") =>
            LET id == resp[t].body["flight_id"]
                res == get_flights(table, WholeTableQuery)
            IN  /\ Cardinality({ r \in table : r["flight_id"] = id }) = 1
                /\ \A r \in table :
                      r["flight_id"] = id =>
                          /\ \A c \in FlightBase : r[c] = req[t].body[c]
                          /\ r["created_at"] = r["updated_at"]
                          /\ r["created_at"] # NULL
                /\ res.status = 200
                /\ \E i \in 1 .. Len(res.rows) : res.rows[i] = resp[t].body

C9_Witness ==
    \E t \in Threads :
        /\ Succeeded(t)
        /\ req[t].op = "create"
        /\ Cardinality(table) = 3
        /\ \E r \in table :
              /\ r["flight_id"] # resp[t].body["flight_id"]
              /\ \A c \in FlightBase : r[c] = req[t].body[c]

\* the response is no rejection of the input (400 or 422)
Accepted(res) == res.status \notin {0, 400, 422}

\* every name of the list "columns", trimmed, is a known column
ColumnsKnown(columns) ==
    \/ columns = "*"
    \/ LET names == SplitComma(columns)
       IN  \A i \in 1 .. Len(names) : Strip(names[i]) \in allowed_columns

\* C10 (as claimed): in every accepted list request the identifiers in
\* columns, sort_by and filter_field are known columns, whether or not a
\* filter_value comes with the filter_field.
C10_AcceptedIdentifiersKnown ==
    Accepted(lst.res) =>
        /\ ColumnsKnown(lst.q.columns)
        /\ lst.q.sort_by \in allowed_columns
        /\ (lst.q.filter_field # NULL /\ lst.q.filter_field # Some(""))
              => lst.q.filter_field[1] \in allowed_columns

\* C10 (amended): in every accepted list request the identifiers in columns
\* (trimmed) and sort_by are known columns, and so is filter_field when a
\* non-empty filter_value comes with it; a filter_field without filter_value
\* is not checked (and not used).
C10_AcceptedIdentifiersKnownWhenUsed ==
    Accepted(lst.res) =>
        /\ ColumnsKnown(lst.q.columns)
        /\ lst.q.sort_by \in allowed_columns
        /\ (/\ lst.q.filter_field # NULL /\ lst.q.filter_field # Some("")
            /\ lst.q.filter_value # NULL /\ lst.q.filter_value # Some(""))
              => lst.q.filter_field[1] \in allowed_columns

C10_Witness ==
    /\ Accepted(lst.res)
    /\ lst.q.columns = " flight_id , status"
    /\ lst.q.filter_field = Some("status")
    /\ lst.q.filter_value = Some("dep")
    /\ Len(lst.res.rows) = 2

\* sub occurs in s as a run of consecutive characters
Contains(s, sub) ==
    \E i \in 0 .. Len(s) - Len(sub) : SubSeq(s, i + 1, i + Len(sub)) = sub

\* the first name of the list "columns" that is no known column, as written
FirstUnknown(columns) ==
    LET names == SplitComma(columns)
        i == CHOOSE k \in 1 .. Len(names) :
                 /\ Strip(names[k]) \notin allowed_columns
                 /\ \A j \in 1 .. k - 1 : Strip(names[j]) \in allowed_columns
    IN  names[i]

\* the unknown identifier a rejected list request is rejected for
Offending(q) ==
    IF ~ColumnsKnown(q.columns) THEN FirstUnknown(q.columns)
    ELSE IF q.sort_by \notin allowed_columns THEN q.sort_by
    ELSE q.filter_field[1]

\* C11 (as claimed): the message of every list request rejected for an
\* unknown identifier in columns, sort_by or filter_field contains that
\* identifier.
C11_RejectionNamesIdentifier ==
    lst.res.status = 400 => Contains(lst.res.detail, Offending(lst.q))

\* C11 (amended): a list request rejected for an unknown name in columns gets
\* the message "Invalid column: " followed by the first such name as written;
\* one rejected for sort_by or filter_field gets the fixed message
\* "Invalid sort column" or "Invalid filter field", which does not name the
\* identifier.
C11_RejectionMessages ==
    lst.res.status = 400 =>
        IF ~ColumnsKnown(lst.q.columns)
          THEN lst.res.detail = "Invalid column: " \o FirstUnknown(lst.q.columns)
        ELSE IF lst.q.sort_by \notin allowed_columns
          THEN lst.res.detail = "Invalid sort column"
        ELSE /\ lst.res.detail = "Invalid filter field"
             /\ lst.q.filter_field[1] \notin allowed_columns
             /\ ~Contains(lst.res.detail, lst.q.filter_field[1])

C11_Witness ==
    /\ lst.res.status = 400
    /\ lst.q.columns = "origin, bogus"
    /\ lst.q.sort_by = "bogus"
    /\ lst.res.detail = "Invalid column:  bogus"

\* the columns a list request selects
SelectedColumns(columns) ==
    IF columns = "*" THEN allowed_columns
    ELSE LET names == SplitComma(columns)
         IN  { Strip(names[i]) : i \in 1 .. Len(names) }

\* the result of query q without pagination (one page that holds the whole
\* table) and with all columns
Unpaginated(tbl, q) ==
    get_flights(tbl, [q EXCEPT !.page = 1, !.per_page = 100, !.columns = "*"]).rows

\* no two records of tbl have the same value in column c
DistinctOn(tbl, c) == \A r, s \in tbl : r # s => r[c] # s[c]

\* the request carries no filter
NoFilter(q) ==
    \/ q.filter_field = NULL \/ q.filter_field = Some("")
    \/ q.filter_value = NULL \/ q.filter_value = Some("")

\* C12: on a table that no request changes, with a sort column on which all
\* records differ, the unpaginated result holds every record once, in sort
\* order, and the request with per_page = 1 and page = p returns exactly its
\* p-th record (nothing beyond the last one), so that pages 1..N return each
\* record exactly once.
C12_PagesOfOne ==
    (lst.res.status = 200 /\ lst.q.per_page = 1
        /\ DistinctOn(table, lst.q.sort_by)) =>
        LET all == Unpaginated(table, lst.q)
            p == lst.q.page
            c == lst.q.sort_by
        IN  /\ \A i, j \in 1 .. Len(all) : i # j => all[i] # all[j]
            /\ { all[i] : i \in 1 .. Len(all) } \subseteq table
            /\ NoFilter(lst.q) => { all[i] : i \in 1 .. Len(all) } = table
            /\ \A i, j \in 1 .. Len(all) :
                  i < j => IF lst.q.sort_order = "asc"
                             THEN ValueLess(c, all[i][c], all[j][c])
                             ELSE ValueLess(c, all[j][c], all[i][c])
            /\ lst.res.rows =
                  IF p <= Len(all)
                    THEN << Project(all[p], SelectedColumns(lst.q.columns)) >>
                    ELSE << >>

C12_Witness ==
    /\ lst.res.status = 200
    /\ lst.q.per_page = 1 /\ lst.q.page = 3
    /\ lst.q.sort_by = "flight_id" /\ lst.q.sort_order = "desc"
    /\ lst.q.columns = "*" /\ lst.q.filter_field = NULL
    /\ Cardinality(table) = 3
    /\ Len(lst.res.rows) = 1
    /\ lst.res.rows[1]["flight_id"] = Some(1)

\* C13: a list request, answered or rejected, leaves the table, what is
\* committed, sqlite_sequence and the snapshot file as they were; the same
\* query asked again on the unchanged table gets the response it got before.
C13_ListReadsOnly ==
    /\ [](lst.res.status # 0 => get_flights(table, lst.q) = lst.res)
    /\ [][/\ table' = table
          /\ committed' = committed
          /\ seq' = seq
          /\ file' = file]_vars

C13_Witness ==
    /\ lst.res.status = 200
    /\ Len(lst.res.rows) = 3
    /\ file = DumpRows(SelectAll(table))
    /\ Cardinality(table) = 3

\* the rows of a response are in the order of column c, ascending or not
InOrder(res_rows, c, ascending) ==
    \A i, j \in 1 .. Len(res_rows) :
        i < j => IF ascending
                   THEN ~ValueLess(c, res_rows[j][c], res_rows[i][c])
                   ELSE ~ValueLess(c, res_rows[i][c], res_rows[j][c])

\* C14 (as claimed): a list request (page and per_page in range) is rejected
\* for its sort_order exactly when sort_order is no case variant of asc or
\* desc.
C14_SortOrderAnyCase ==
    lst.res.status # 0 =>
        (lst.res.status = 422 <=> Upper(lst.q.sort_order) \notin {"ASC", "DESC"})

\* C14 (amended): a list request (page and per_page in range) is rejected
\* for its sort_order exactly when sort_order is not the lowercase asc or
\* desc, so ASC and Desc are rejected too; an answered request has its rows
\* in ascending order of sort_by for asc and in descending order for desc.
C14_SortOrderLowercaseOnly ==
    lst.res.status # 0 =>
        /\ lst.res.status = 422 <=> lst.q.sort_order \notin {"asc", "desc"}
        /\ (lst.res.status = 200
               /\ lst.q.sort_by \in SelectedColumns(lst.q.columns)) =>
              InOrder(lst.res.rows, lst.q.sort_by, lst.q.sort_order = "asc")

C14_Witness ==
    /\ lst.res.status = 422
    /\ lst.q.sort_order = "Desc"
    /\ lst.q.sort_by = "flight_id"
    /\ lst.q.columns = "*"

\* C15: when load_json_to_sqlite of the last start ended in its except
\* clause, the table was left empty, and no row it had inserted before the
\* failure is in the table, in a list of the table, or committed later.
C15_FailedLoadLeavesTableEmpty ==
    ~boot.ok =>
        /\ boot.rows = {}
        /\ table \cap boot.rows = {}
        /\ committed \cap boot.rows = {}
        /\ ListedIds(table \cap boot.rows) = {}

\* this step is a restart of the process
Restarts == boot'.count = boot.count + 1

\* C16: when the process restarts while the snapshot file holds exactly the
\* records of the table (the last resync completed), load_json_to_sqlite
\* goes through and the table it builds is the table before the restart:
\* the same flight_ids, and per flight_id the same values in all fields.
C16_LoadInvertsResync ==
    [][(Restarts /\ SnapshotMatches(file, table))
          => (boot'.ok /\ table' = table)]_vars

C16_Witness ==
    /\ boot.count = 1
    /\ boot.ok
    /\ Ids(table) = {2, 3}
    /\ deleted = {1}
    /\ SnapshotMatches(file, table)

\* C17: no Create assigns a flight_id that a Delete has removed, restarts of
\* the process between the Delete and the Create included.
C17_DeletedIdNeverReassigned ==
    [][\A t \in Threads :
          Starts(t, "create") => lastrowid'[t] \notin deleted]_vars

\* C18: an UPDATE or DELETE statement of a handler runs only while the
\* record its existence check found is still in the table, so that no two
\* Deletes of one flight_id both report success (and no Update reports
\* success for a record deleted before its UPDATE ran).
C18_WriteFindsRecord ==
    /\ [][\A t \in Threads :
             (pc[t] \in {"update", "delete"} /\ pc'[t] = "commit")
                 => req[t].flight_id \in Ids(table)]_vars
    /\ [](\A t, u \in Threads :
             (/\ t # u
              /\ Succeeded(t) /\ req[t].op = "delete"
              /\ Succeeded(u) /\ req[u].op = "delete")
                 => req[t].flight_id # req[u].flight_id)

\* the request carries a filter on a known column
Filtered(q) == ~NoFilter(q) /\ q.filter_field[1] \in allowed_columns

\* the records of the unpaginated result of the answered request
FilterResult == LET all == Unpaginated(table, lst.q)
                IN  { all[i] : i \in 1 .. Len(all) }

\* the pieces of s between its "%" characters
RECURSIVE SplitPercent(_)
SplitPercent(s) ==
    IF \E i \in 1 .. Len(s) : Ch(s, i) = "%"
      THEN LET i == CHOOSE k \in 1 .. Len(s) :
                       /\ Ch(s, k) = "%"
                       /\ \A j \in 1 .. k - 1 : Ch(s, j) # "%"
           IN  << SubSeq(s, 1, i - 1) >> \o SplitPercent(SubSeq(s, i + 1, Len(s)))
      ELSE << s >>

\* piece occurs in s at position i, "_" standing for any one character and
\* letters compared without regard to case
PieceAt(piece, s, i) ==
    /\ i + Len(piece) - 1 <= Len(s)
    /\ \A k \in 1 .. Len(piece) :
          \/ Ch(piece, k) = "_"
          \/ UpperChar(Ch(piece, k)) = UpperChar(Ch(s, i + k - 1))

\* the pieces k.. occur in s one after the other, without overlap, at or
\* after position from
RECURSIVE PiecesFrom(_, _, _, _)
PiecesFrom(pieces, k, s, from) ==
    \/ k > Len(pieces)
    \/ \E i \in from .. Len(s) + 1 :
          /\ PieceAt(pieces[k], s, i)
          /\ PiecesFrom(pieces, k + 1, s, i + Len(pieces[k]))

\* C19 (as claimed): the unpaginated result of a filtered list request is
\* the set of records whose filter_field value, as text, contains
\* filter_value as a literal substring (same characters, same case).
C19_FilterIsLiteralSubstring ==
    (lst.res.status = 200 /\ Filtered(lst.q)) =>
        LET f == lst.q.filter_field[1]
            v == lst.q.filter_value[1]
        IN  FilterResult =
              { r \in table : r[f] # NULL /\ Contains(Text(f, r[f]), v) }

\* C19 (amended): the unpaginated result of a filtered list request is the
\* set of records whose filter_field value is not null and, as text (decimal
\* digits for a numeric column), contains filter_value as a substring in the
\* sense of LIKE: ASCII letters match in either case, "_" in filter_value
\* matches any one character, and "%" matches any run of characters.
C19_FilterIsLikeSubstring ==
    (lst.res.status = 200 /\ Filtered(lst.q)) =>
        LET f == lst.q.filter_field[1]
            v == lst.q.filter_value[1]
        IN  FilterResult =
              { r \in table :
                  /\ r[f] # NULL
                  /\ PiecesFrom(SplitPercent(v), 1, Text(f, r[f]), 1) }

C19_Witness ==
    /\ lst.res.status = 200
    /\ lst.q.filter_field = Some("seats_total")
    /\ lst.q.filter_value = Some("1%0")
    /\ Cardinality(table) = 3
    /\ { r["flight_id"][1] : r \in FilterResult } = {1, 3}
    /\ lst.q.page = 1 /\ lst.q.per_page = 10 /\ lst.q.columns = "*"
    /\ Len(lst.res.rows) = 2

====
